---- MODULE Spec2Model ----
(***************************************************************************)
(* doc2md (TextTools): conversion of .docx documents to Markdown with      *)
(* YAML frontmatter.  The module models                                    *)
(*   - the markdown post-processor (converter.js, postprocessMarkdown),    *)
(*   - title resolution and frontmatter composition (index.js,             *)
(*     frontmatter.js),                                                    *)
(*   - the single-document and batch pipelines (index.js, converter.js),   *)
(*   - the batch summary (utils.js),                                       *)
(*   - the subscript rule of the flattening (converter.js),                *)
(*   - the convert action of the command line (bin/doc2md.js, config.js).  *)
(* Texts are sequences of one-character strings; JavaScript objects are    *)
(* sequences of <<key, value>> pairs in insertion order.                   *)
(***************************************************************************)
EXTENDS Integers, Sequences, FiniteSets, TLC

VARIABLES
    \* --- flattening and post-processor ---
    html,          \* the inline nodes handed to turndown, in document order
    text,          \* the markdown handed to postprocessMarkdown
    out1,          \* postprocessMarkdown(text)
    out2,          \* postprocessMarkdown(out1)
    ppc,           \* "html" | "in" | "once" | "twice" | "composed" | "off"
    \* --- title resolution and frontmatter (convertDocument) ---
    fmIn,          \* options.frontmatter as the caller gave it
    pathIn,        \* inputPath
    titleOut,      \* the title convertDocument resolved
    fmOut,         \* what generateFrontmatter returned (or threw)
    \* --- conversion pipeline (convertDocument, convertMultipleDocuments) ---
    mode,          \* "single" (CLI, one document) | "batch" | "off"
    inputFiles,    \* the documents to convert, in input order
    extractImages, \* options.extractImages
    pc,            \* the statement the pipeline is at
    idx,           \* index in inputFiles of the document being converted
    handler,       \* imageHandler is not null
    imageCounter,  \* createImageHandler: let imageCounter
    images,        \* createImageHandler: const images
    calls,         \* content type of each invocation of handler, in call order
    srcs,          \* the src each invocation of handler returned
    saved,         \* number of images the save loop has gone through
    imageFiles,    \* image files on disk
    outputFiles,   \* markdown files on disk (by document index)
    dirs,          \* directories created
    stages,        \* pipeline stages completed for the current document
    converted,     \* what convertDocxToMarkdown returned
    outcome,       \* what convertDocument returned or threw
    results,       \* convertMultipleDocuments: const results
    summary,       \* createConversionSummary(results)
    \* --- command line (bin/doc2md.js, convert action) ---
    input,         \* what the <input> argument names: "file" | "directory"
    config,        \* the config file as loaded ({} when there is none)
    cliOptions,    \* the options commander parsed from the command line
    mergedOptions, \* mergeOptions(config, {...})
    exitStatus,    \* the exit status of the process, once it has ended
    tally          \* the batch summary the action printed

ppVars == <<html, text, out1, out2, ppc>>
fmVars == <<fmIn, pathIn, titleOut, fmOut>>
inVars == <<mode, inputFiles, extractImages>>
sinkVars == <<handler, imageCounter, images, calls, srcs>>
diskVars == <<imageFiles, outputFiles, dirs>>
docVars == <<idx, saved, stages, converted, outcome>>
pipeVars == <<inVars, pc, sinkVars, diskVars, docVars, results, summary>>

cliVars == <<input, config, cliOptions, mergedOptions, exitStatus, tally>>

vars == <<ppVars, fmVars, pipeVars, cliVars>>

----------------------------------------------------------------------------
(* Characters and character classes of the regular expressions.           *)

NL == "\n"

Lower == {"a"}
Upper == {"H"}
Digit == {"2"}
\* \s : the whitespace characters of the alphabet
Space == {" ", NL}
\* \w : letters, digits and underscore
Word == Lower \cup Upper \cup Digit \cup {"_"}

Alphabet == {NL, " ", "#", "a", "H", "2", "|", "_", "$"}

\* . and [^\n]
NonNL == Alphabet \ {NL}

\* the character at position i, or "" outside the text
Char(s, i) == IF i >= 1 /\ i <= Len(s) THEN s[i] ELSE ""

\* length of the longest run of characters of class C starting at position i
RECURSIVE RunLen(_, _, _)
RunLen(s, i, C) ==
    IF i > Len(s) \/ s[i] \notin C THEN 0 ELSE 1 + RunLen(s, i + 1, C)

\* SubSeq with an empty result when the range is empty
Slice(s, a, b) == IF a > b THEN <<>> ELSE SubSeq(s, a, b)

----------------------------------------------------------------------------
(* postprocessMarkdown: six global regular-expression replacements and a   *)
(* trim.  Each RuleNFrom(s, i) is the result of String.replace with the /g *)
(* flag from position i on: leftmost match, replacement, scan resumes      *)
(* after the match.                                                        *)

MaxHeadingLevel == 6
MinNewlineRun == 3

\* markdown.replace(/\n{3,}/g, '\n\n')
RECURSIVE Rule1From(_, _)
Rule1From(s, i) ==
    IF i > Len(s) THEN <<>>
    ELSE LET r == RunLen(s, i, {NL}) IN
         IF r >= MinNewlineRun
         THEN <<NL, NL>> \o Rule1From(s, i + r)
         ELSE <<s[i]>> \o Rule1From(s, i + 1)

\* markdown.replace(/\n(#{1,6}\s)/g, '\n\n$1')
RECURSIVE Rule2From(_, _)
Rule2From(s, i) ==
    IF i > Len(s) THEN <<>>
    ELSE LET h == RunLen(s, i + 1, {"#"}) IN
         IF /\ s[i] = NL
            /\ h >= 1 /\ h <= MaxHeadingLevel
            /\ Char(s, i + h + 1) \in Space
         THEN <<NL, NL>> \o SubSeq(s, i + 1, i + h + 1) \o Rule2From(s, i + h + 2)
         ELSE <<s[i]>> \o Rule2From(s, i + 1)

\* markdown.replace(/(#{1,6}\s.+)\n([^\n])/g, '$1\n\n$2')
RECURSIVE Rule3From(_, _)
Rule3From(s, i) ==
    IF i > Len(s) THEN <<>>
    ELSE LET h == RunLen(s, i, {"#"})
             m == RunLen(s, i + h + 1, NonNL)
         IN
         IF /\ h >= 1 /\ h <= MaxHeadingLevel
            /\ Char(s, i + h) \in Space
            /\ m >= 1
            /\ Char(s, i + h + 1 + m) = NL
            /\ Char(s, i + h + 2 + m) \in NonNL
         THEN SubSeq(s, i, i + h + m) \o <<NL, NL, s[i + h + 2 + m]>>
                  \o Rule3From(s, i + h + 3 + m)
         ELSE <<s[i]>> \o Rule3From(s, i + 1)

\* markdown.replace(/\n(\|[^\n]+\|)\n([^\|])/g, '\n$1\n\n$2')
RECURSIVE Rule4From(_, _)
Rule4From(s, i) ==
    IF i > Len(s) THEN <<>>
    ELSE LET m == RunLen(s, i + 2, NonNL) IN
         IF /\ s[i] = NL
            /\ Char(s, i + 1) = "|"
            /\ m >= 2
            /\ Char(s, i + 1 + m) = "|"
            /\ Char(s, i + 2 + m) = NL
            /\ Char(s, i + 3 + m) \in Alphabet \ {"|"}
         THEN <<NL>> \o SubSeq(s, i + 1, i + 1 + m) \o <<NL, NL, s[i + 3 + m]>>
                  \o Rule4From(s, i + 4 + m)
         ELSE <<s[i]>> \o Rule4From(s, i + 1)

\* markdown.replace(/([A-Z][a-z]?)_(\d+)_/g, '$1_$2')
RECURSIVE Rule5From(_, _)
Rule5From(s, i) ==
    IF i > Len(s) THEN <<>>
    ELSE LET l == IF Char(s, i + 1) \in Lower THEN 1 ELSE 0
             d == RunLen(s, i + 2 + l, Digit)
         IN
         IF /\ s[i] \in Upper
            /\ Char(s, i + 1 + l) = "_"
            /\ d >= 1
            /\ Char(s, i + 2 + l + d) = "_"
         THEN SubSeq(s, i, i + 1 + l + d) \o Rule5From(s, i + 3 + l + d)
         ELSE <<s[i]>> \o Rule5From(s, i + 1)

\* ([A-Z][a-z]?\d*)+ matching t from position p exactly to its end
RECURSIVE FormulaGroups(_, _)
FormulaGroups(t, p) ==
    /\ Char(t, p) \in Upper
    /\ LET l == IF Char(t, p + 1) \in Lower THEN 1 ELSE 0
           d == RunLen(t, p + 1 + l, Digit)
           q == p + 1 + l + d
       IN  q > Len(t) \/ FormulaGroups(t, q)

\* the pattern with (\d) in place of (\d+)
IsFormulaOneDigit(t) ==
    /\ Char(t, 1) \in Upper
    /\ LET l == IF Char(t, 2) \in Lower THEN 1 ELSE 0
       IN  Char(t, 2 + l) \in Digit /\ FormulaGroups(t, 3 + l)

\* ([A-Z][a-z]?)(\d+)([A-Z][a-z]?\d*)+ matching the whole of t
IsFormula(t) ==
    /\ Char(t, 1) \in Upper
    /\ LET l == IF Char(t, 2) \in Lower THEN 1 ELSE 0
           d == RunLen(t, 2 + l, Digit)
       IN  d >= 1 /\ FormulaGroups(t, 2 + l + d)

\* markdown.replace(/\b([A-Z][a-z]?)(\d+)([A-Z][a-z]?\d*)+\b/g, '$$$&$$')
\* Every matched character is a word character, so the two \b force the
\* match to be a whole maximal run of word characters.
RECURSIVE Rule6From(_, _)
Rule6From(s, i) ==
    IF i > Len(s) THEN <<>>
    ELSE LET w == RunLen(s, i, Word) IN
         IF /\ Char(s, i - 1) \notin Word
            /\ w >= 1
            /\ IsFormula(SubSeq(s, i, i + w - 1))
         THEN <<"$">> \o SubSeq(s, i, i + w - 1) \o <<"$">> \o Rule6From(s, i + w)
         ELSE <<s[i]>> \o Rule6From(s, i + 1)

\* String.prototype.trim
RECURSIVE TrimLeft(_)
TrimLeft(s) == IF s # <<>> /\ Head(s) \in Space THEN TrimLeft(Tail(s)) ELSE s

RECURSIVE TrimRight(_)
TrimRight(s) ==
    IF s # <<>> /\ s[Len(s)] \in Space THEN TrimRight(SubSeq(s, 1, Len(s) - 1)) ELSE s

Trim(s) == TrimRight(TrimLeft(s))

HeaderSpacing(s) == Rule3From(Rule2From(s, 1), 1)

postprocessMarkdown(markdown) ==
    Trim(Rule6From(Rule5From(Rule4From(HeaderSpacing(Rule1From(markdown, 1)), 1), 1), 1))

----------------------------------------------------------------------------
(* Specification SpecPost: postprocessMarkdown applied once and twice to   *)
(* every text of at most MaxLen characters.                                *)

MaxLen == 4

Texts == UNION {[1..k -> Alphabet] : k \in 0..MaxLen}

FmIdle ==
    /\ fmIn = <<>>
    /\ pathIn = <<>>
    /\ titleOut = [t |-> "undefined"]
    /\ fmOut = [t |-> "undefined"]

None == [t |-> "none"]

PipeIdle ==
    /\ mode = "off"
    /\ inputFiles = <<>>
    /\ extractImages = FALSE
    /\ pc = "off"
    /\ idx = 0
    /\ handler = FALSE
    /\ imageCounter = 0
    /\ images = <<>>
    /\ calls = <<>>
    /\ srcs = <<>>
    /\ saved = 0
    /\ imageFiles = {}
    /\ outputFiles = {}
    /\ dirs = {}
    /\ stages = <<>>
    /\ converted = None
    /\ outcome = None
    /\ results = <<>>
    /\ summary = None

CliIdle ==
    /\ input = "none"
    /\ config = <<>>
    /\ cliOptions = <<>>
    /\ mergedOptions = None
    /\ exitStatus = None
    /\ tally = None

PpIdle ==
    /\ text = <<>>
    /\ html = <<>>
    /\ out1 = <<>>
    /\ out2 = <<>>
    /\ ppc = "off"

InitPost ==
    /\ text \in Texts
    /\ html = <<>>
    /\ out1 = <<>>
    /\ out2 = <<>>
    /\ ppc = "in"
    /\ FmIdle
    /\ PipeIdle
    /\ CliIdle

Postprocess ==
    /\ ppc = "in"
    /\ out1' = postprocessMarkdown(text)
    /\ ppc' = "once"
    /\ UNCHANGED <<html, text, out2, fmVars, pipeVars, cliVars>>

PostprocessAgain ==
    /\ ppc = "once"
    /\ out2' = postprocessMarkdown(out1)
    /\ ppc' = "twice"
    /\ UNCHANGED <<html, text, out1, fmVars, pipeVars, cliVars>>

NextPost == Postprocess \/ PostprocessAgain

SpecPost == InitPost /\ [][NextPost]_vars

----------------------------------------------------------------------------
(* JavaScript values.  A string is Str(sequence of characters); an object  *)
(* is Obj(sequence of <<key, value>> pairs, insertion order).  Absent is   *)
(* not a value: it marks a key the caller did not put in the record.       *)

Undefined == [t |-> "undefined"]
Null == [t |-> "null"]
Absent == [t |-> "absent"]
Str(s) == [t |-> "str", s |-> s]
Num(n) == [t |-> "num", n |-> n]
List(l) == [t |-> "list", l |-> l]
Obj(o) == [t |-> "obj", o |-> o]
Bool(b) == [t |-> "bool", b |-> b]
Threw(e) == [t |-> "throw", e |-> e]

Keys(o) == [i \in 1..Len(o) |-> o[i][1]]
Has(o, k) == \E i \in 1..Len(o) : o[i][1] = k

\* o[k] : undefined for a key that is not there
Get(o, k) ==
    IF Has(o, k) THEN o[CHOOSE i \in 1..Len(o) : o[i][1] = k][2] ELSE Undefined

\* o[k] = v : an existing key keeps its position
Set(o, k, v) ==
    IF Has(o, k)
    THEN [i \in 1..Len(o) |-> IF o[i][1] = k THEN <<k, v>> ELSE o[i]]
    ELSE Append(o, <<k, v>>)

\* { ...base, ...o }
RECURSIVE Spread(_, _)
Spread(base, o) ==
    IF o = <<>> THEN base ELSE Spread(Set(base, o[1][1], o[1][2]), Tail(o))

\* destructuring default: only undefined takes the default
Default(v, d) == IF v = Undefined THEN d ELSE v

\* ToBoolean
Truthy(v) ==
    CASE v.t = "undefined" -> FALSE
      [] v.t = "null" -> FALSE
      [] v.t = "str" -> v.s # <<>>
      [] v.t = "num" -> v.n # 0
      [] v.t = "bool" -> v.b
      [] OTHER -> TRUE

\* a || b
Or(a, b) == IF Truthy(a) THEN a ELSE b

----------------------------------------------------------------------------
(* frontmatter.js                                                          *)

Untitled == Str(<<"U", "n", "t", "i", "t", "l", "e", "d">>)

\* generateFrontmatter(options): the object built at lines 15-21, or the
\* TypeError of objectives.length when objectives is null.
generateFrontmatter(options) ==
    LET title == Default(Get(options, "title"), Untitled)
        section == Default(Get(options, "section"), Null)
        chapter == Default(Get(options, "chapter"), Null)
        objectives == Default(Get(options, "objectives"), List(<<>>))
        customFields == Default(Get(options, "customFields"), Obj(<<>>))
        withTitle == <<<<"title", title>>>>
        withSection == IF section # Null
                       THEN Set(withTitle, "section", section) ELSE withTitle
        withChapter == IF chapter # Null
                       THEN Set(withSection, "chapter", chapter) ELSE withSection
        nonEmpty == CASE objectives.t = "list" -> Len(objectives.l) > 0
                      [] objectives.t = "str" -> Len(objectives.s) > 0
                      [] OTHER -> FALSE
        withObjectives == IF nonEmpty
                          THEN Set(withChapter, "objectives", objectives)
                          ELSE withChapter
    IN  IF objectives = Null
        THEN Threw("TypeError")
        ELSE Obj(Spread(withObjectives,
                        IF customFields.t = "obj" THEN customFields.o ELSE <<>>))

----------------------------------------------------------------------------
(* converter.js: extractTitle, extractTitleFromFilename                    *)

UntitledDocument ==
    Str(<<"U", "n", "t", "i", "t", "l", "e", "d", " ",
          "D", "o", "c", "u", "m", "e", "n", "t">>)

\* ^ with the m flag: the start of the text or the position after a newline
AtLineStart(s, i) == i = 1 \/ Char(s, i - 1) = NL

\* \s+(.+)$ after the hashes of a heading that ends at position p - 1: the
\* number of whitespace characters \s+ keeps (greedy, giving back one at a
\* time until .+ has a character to take), 0 when there is no match
TitleSpaces(s, p) ==
    LET w == RunLen(s, p, Space)
        ok == {c \in 1..w : RunLen(s, p + c, NonNL) >= 1}
    IN  IF ok = {} THEN 0 ELSE CHOOSE c \in ok : \A d \in ok : d <= c

\* /^#{1,maxLevel}\s+(.+)$/m matches at position i
HeadingAt(s, i, maxLevel) ==
    LET h == RunLen(s, i, {"#"}) IN
    /\ AtLineStart(s, i)
    /\ h >= 1 /\ h <= maxLevel
    /\ TitleSpaces(s, i + h) >= 1

\* capture group 1 of the match at position i
HeadingGroup(s, i) ==
    LET h == RunLen(s, i, {"#"})
        p == i + h + TitleSpaces(s, i + h)
    IN  SubSeq(s, p, p + RunLen(s, p, NonNL) - 1)

\* String.match without the g flag: the leftmost match
FirstHeadingAt(s, maxLevel) ==
    LET at == {i \in 1..Len(s) : HeadingAt(s, i, maxLevel)}
    IN  IF at = {} THEN 0 ELSE CHOOSE i \in at : \A j \in at : i <= j

extractTitle(markdown) ==
    LET h1 == FirstHeadingAt(markdown, 1)
        any == FirstHeadingAt(markdown, MaxHeadingLevel)
    IN  IF h1 # 0 THEN Str(Trim(HeadingGroup(markdown, h1)))
        ELSE IF any # 0 THEN Str(Trim(HeadingGroup(markdown, any)))
        ELSE UntitledDocument

\* characters of file names
PathLower == {"a", "b", "c", "d", "o", "x"}
PathWord == PathLower \cup {"A", "B", "C", "D", "O", "X", "2", "_"}

\* String.prototype.toUpperCase on one character
ToUpper(c) ==
    CASE c = "a" -> "A" [] c = "b" -> "B" [] c = "c" -> "C"
      [] c = "d" -> "D" [] c = "o" -> "O" [] c = "x" -> "X"
      [] OTHER -> c

\* the position of the last c in s, 0 when there is none
LastIndexOf(s, c) ==
    LET at == {i \in 1..Len(s) : s[i] = c}
    IN  IF at = {} THEN 0 ELSE CHOOSE i \in at : \A j \in at : j <= i

\* the last segment of a path
LastSegment(filename) ==
    Slice(filename, LastIndexOf(filename, "/") + 1, Len(filename))

\* path.extname: from the last dot of the last segment, unless that dot is
\* its first character
ExtName(filename) ==
    LET seg == LastSegment(filename)
        dot == LastIndexOf(seg, ".")
    IN  IF dot <= 1 THEN <<>> ELSE SubSeq(seg, dot, Len(seg))

\* path.basename(filename, ext)
BaseName(filename, ext) ==
    LET seg == LastSegment(filename)
        n == Len(seg) - Len(ext)
    IN  IF ext # <<>> /\ n >= 1 /\ SubSeq(seg, n + 1, Len(seg)) = ext
        THEN SubSeq(seg, 1, n) ELSE seg

\* .replace(/[-_]/g, ' ')
DashesToSpaces(s) == [i \in 1..Len(s) |-> IF s[i] \in {"-", "_"} THEN " " ELSE s[i]]

\* .replace(/\b\w/g, char => char.toUpperCase())
CapitalizeWords(s) ==
    [i \in 1..Len(s) |->
        IF s[i] \in PathWord /\ Char(s, i - 1) \notin PathWord
        THEN ToUpper(s[i]) ELSE s[i]]

extractTitleFromFilename(filename) ==
    Str(CapitalizeWords(DashesToSpaces(BaseName(filename, ExtName(filename)))))

----------------------------------------------------------------------------
(* index.js, convertDocument lines 205-214: title resolution and the       *)
(* options handed to generateFrontmatter.                                  *)

ResolveTitle(frontmatter, markdown, inputPath) ==
    Or(Or(Get(frontmatter, "title"), extractTitle(markdown)),
       extractTitleFromFilename(inputPath))

FrontmatterOptions(frontmatter, title) ==
    Spread(<<<<"title", title>>>>, frontmatter)

----------------------------------------------------------------------------
(* Specification SpecFront: convertDocument from the flattened markdown    *)
(* on: postprocessMarkdown, title resolution, generateFrontmatter, for     *)
(* every frontmatter record of FrontmatterInputs.                          *)

\* flattened markdown of the documents converted
FrontTexts ==
    { <<"#", " ", "H">>,
      <<"a">>,
      <<"#", "#", " ", "a", NL, "#", " ", "H">>,
      <<"a", NL, "#", "#", " ", "H">>,
      <<"#", "#", "#", "#", "#", "#", "#", " ", "a">>,
      <<"#", "a">> }

FrontPaths ==
    { <<"d", "/", "a", "-", "b", ".", "d", "o", "c", "x">>,
      <<"a", "_", "2", ".", "d", "o", "c", "x">> }

TitleChoices == {Absent, Undefined, Str(<<"T">>), Str(<<>>)}
SectionChoices == {Absent, Undefined, Null, Str(<<>>), Str(<<"1">>)}
ChapterChoices == {Absent, Undefined, Num(1)}
ObjectivesChoices == {Absent, Undefined, Null, List(<<>>), List(<<Str(<<"o">>)>>)}
AuthorChoices == {Absent, Str(<<"x">>)}
LevelChoices == {Absent, Num(2)}
CustomChoices == {Absent, Obj(<<<<"note", Str(<<"z">>)>>>>)}

Given(pairs) == SelectSeq(pairs, LAMBDA q : q[2] # Absent)

Reverse(q) == [i \in 1..Len(q) |-> q[Len(q) + 1 - i]]

\* the records a caller can pass: the keys in the order of the CLI
\* (recognized keys first) or in the opposite order
FrontmatterInputs ==
    { IF rev THEN Reverse(r) ELSE r :
        rev \in BOOLEAN,
        r \in { Given(<<<<"title", t>>, <<"section", s>>, <<"chapter", c>>,
                        <<"objectives", o>>, <<"author", a>>, <<"level", l>>,
                        <<"customFields", f>>>>) :
                  t \in TitleChoices, s \in SectionChoices, c \in ChapterChoices,
                  o \in ObjectivesChoices, a \in AuthorChoices, l \in LevelChoices,
                  f \in CustomChoices } }

InitFront ==
    /\ text \in FrontTexts
    /\ html = <<>>
    /\ out1 = <<>>
    /\ out2 = <<>>
    /\ ppc = "in"
    /\ fmIn \in FrontmatterInputs
    /\ pathIn \in FrontPaths
    /\ titleOut = Undefined
    /\ fmOut = Undefined
    /\ PipeIdle
    /\ CliIdle

\* convertDocument lines 205-214 and addFrontmatterToMarkdown line 44
ComposeFrontmatter ==
    /\ ppc = "once"
    /\ LET title == ResolveTitle(fmIn, out1, pathIn) IN
       /\ titleOut' = title
       /\ fmOut' = generateFrontmatter(FrontmatterOptions(fmIn, title))
    /\ ppc' = "composed"
    /\ UNCHANGED <<cliVars, html, text, out1, out2, fmIn, pathIn, pipeVars>>

NextFront == Postprocess \/ ComposeFrontmatter

SpecFront == InitFront /\ [][NextFront]_vars

Composed == ppc = "composed" /\ fmOut.t = "obj"

\* the record generateFrontmatter was given
OptionsGiven == FrontmatterOptions(fmIn, titleOut)

RecognizedKeys == <<"title", "section", "chapter", "objectives">>
IsRecognized(k) == \E i \in 1..Len(RecognizedKeys) : RecognizedKeys[i] = k

\* absent, undefined, null or empty
IsEmptyValue(v) == v \in {Undefined, Null, Str(<<>>), List(<<>>)}

\* C7: a recognized key (section, chapter, objectives) that is absent,
\* undefined, null or empty in the options given to generateFrontmatter does
\* not appear in the produced frontmatter; with none of the three (and no
\* customFields) the frontmatter has the single key title.
C7_EmptyKeysOmitted ==
    Composed =>
        /\ \A k \in {"section", "chapter", "objectives"} :
               IsEmptyValue(Get(OptionsGiven, k)) => ~Has(fmOut.o, k)
        /\ (/\ \A k \in {"section", "chapter", "objectives", "customFields"} :
                   ~Has(OptionsGiven, k)
            /\ ~Has(OptionsGiven, "author") /\ ~Has(OptionsGiven, "level"))
               => Keys(fmOut.o) = <<"title">>

\* the lines of a text
RECURSIVE Lines(_)
Lines(s) ==
    LET n == RunLen(s, 1, NonNL) IN
    IF n >= Len(s) THEN <<s>>
    ELSE <<Slice(s, 1, n)>> \o Lines(Slice(s, n + 2, Len(s)))

\* a heading line: 1 to 6 '#', a space, text
IsHeadingLine(l) ==
    LET h == RunLen(l, 1, {"#"}) IN
    /\ h >= 1 /\ h <= MaxHeadingLevel
    /\ Char(l, h + 1) = " "
    /\ Trim(Slice(l, h + 2, Len(l))) # <<>>

HeadingText(l) == Trim(Slice(l, RunLen(l, 1, {"#"}) + 2, Len(l)))

HasHeadingLine(s) == \E i \in 1..Len(Lines(s)) : IsHeadingLine(Lines(s)[i])

FirstHeadingText(s) ==
    LET ls == Lines(s)
        i == CHOOSE j \in 1..Len(ls) :
                 IsHeadingLine(ls[j]) /\ \A k \in 1..(j - 1) : ~IsHeadingLine(ls[k])
    IN  HeadingText(ls[i])

\* no title key, or a title key whose value is undefined
CallerGaveNoTitle == Get(fmIn, "title") = Undefined
CallerGaveTitle == Get(fmIn, "title").t = "str" /\ Get(fmIn, "title").s # <<>>

\* C8: with no caller title and a heading line in the postprocessed
\* markdown, the written title is the text of the first heading; with a
\* caller title, the written title is the caller's.
C8_TitleFromHeading ==
    Composed =>
        /\ (CallerGaveNoTitle /\ HasHeadingLine(out1))
               => Get(fmOut.o, "title") = Str(FirstHeadingText(out1))
        /\ CallerGaveTitle => Get(fmOut.o, "title") = Get(fmIn, "title")

\* C9: with no caller title and no heading line in the postprocessed
\* markdown, the written title is extractTitleFromFilename(inputPath).
C9_TitleFromFilename ==
    (Composed /\ CallerGaveNoTitle /\ ~HasHeadingLine(out1))
        => Get(fmOut.o, "title") = extractTitleFromFilename(pathIn)

\* the caller's keys that are neither recognized nor the customFields
\* container generateFrontmatter reads
ExtensionKeys(o) ==
    SelectSeq(Keys(o), LAMBDA k : ~IsRecognized(k) /\ k # "customFields")

\* C10: the header lists the recognized keys present in the order title,
\* section, chapter, objectives, then every other key of the caller's
\* record in the caller's order, each with the caller's value; no key of
\* the caller is dropped.
C10_ExtensionKeysPassedThrough ==
    Composed =>
        LET outKeys == Keys(fmOut.o)
            ext == ExtensionKeys(fmIn)
        IN  /\ SelectSeq(outKeys, IsRecognized)
                   = SelectSeq(RecognizedKeys, LAMBDA k : Has(fmOut.o, k))
            /\ SelectSeq(outKeys, LAMBDA k : \E i \in 1..Len(ext) : ext[i] = k) = ext
            /\ \A i, j \in 1..Len(outKeys) :
                   (IsRecognized(outKeys[i]) /\ ~IsRecognized(outKeys[j])) => i < j
            /\ \A i \in 1..Len(ext) : Get(fmOut.o, ext[i]) = Get(fmIn, ext[i])

----------------------------------------------------------------------------
(* utils.js: createConversionSummary                                       *)

\* Number.prototype.toFixed(1) of successful / total * 100: the decimal
\* string "<units>.<tenth>", rounded to the nearest tenth (for fewer than 16
\* results the quotient is never half way between two tenths)
ToFixed1(successful, total) ==
    LET tenths == (2000 * successful + total) \div (2 * total)
    IN  [t |-> "decimal", units |-> tenths \div 10, tenth |-> tenths % 10]

CountSuccess(rs) == Cardinality({i \in 1..Len(rs) : rs[i].success})
CountFailure(rs) == Cardinality({i \in 1..Len(rs) : ~rs[i].success})

createConversionSummary(rs) ==
    [ total |-> Len(rs),
      successful |-> CountSuccess(rs),
      failed |-> CountFailure(rs),
      successRate |-> IF Len(rs) > 0
                      THEN ToFixed1(CountSuccess(rs), Len(rs))
                      ELSE Num(0) ]

----------------------------------------------------------------------------
(* converter.js: createImageHandler                                        *)

\* element.contentType.split('/')[1] || 'png'
\* a content type is the sequence of its parts between the slashes
Extension(contentType) ==
    IF Len(contentType) >= 2 /\ contentType[2] # "" THEN contentType[2] ELSE "png"

\* `${documentName}-image-${imageCounter}.${extension}`
ImageName(documentName, counter, extension) ==
    [doc |-> documentName, n |-> counter, ext |-> extension]

\* `![Image ${imageCounter}](./images/${imageName})`
Placeholder(counter, imageName) == [alt |-> counter, file |-> imageName]

\* the record pushed at lines 68-73
ImageRecord(documentName, counter, contentType) ==
    LET name == ImageName(documentName, counter, Extension(contentType))
    IN  [ buffer |-> <<documentName, counter>>,
          path |-> <<"images", name>>,
          name |-> name,
          placeholder |-> Placeholder(counter, name) ]

\* a handler that forgets imageCounter++
NextCounterStuck(counter) == counter

\* imageCounter++
NextCounter(counter) == counter + 1

----------------------------------------------------------------------------
(* The documents.  A document is described by what the file system and the *)
(* external converter do with it:                                          *)
(*   kind    "missing" | "wrongext" | "unreadable" : validateInputFile     *)
(*           fails; "corrupt" : mammoth.convertToHtml throws (after        *)
(*           nImages image callbacks); "ok"                                *)
(*   nImages the number of embedded images mammoth finds                   *)
(*   failAt  the ordinal of the image whose fs.writeFile fails, 0 for none *)
(*   types   the content types its images can have                         *)
(*   messages the warnings mammoth reports (result.messages)               *)

MaxImages == 2
MaxFiles == 2

ContentTypes == {<<"image", "png">>, <<"image", "jpeg">>, <<"image", "">>, <<"image">>}

Documents(types, messages) ==
    { [kind |-> k, nImages |-> 0, failAt |-> 0, types |-> types, messages |-> <<>>] :
        k \in {"missing", "wrongext", "unreadable"} }
    \cup { [kind |-> "corrupt", nImages |-> n, failAt |-> 0, types |-> types,
             messages |-> <<>>] : n \in 0..MaxImages }
    \cup { d \in { [kind |-> "ok", nImages |-> n, failAt |-> f, types |-> types,
                      messages |-> m] :
                      n \in 0..MaxImages, f \in 0..MaxImages, m \in messages } :
             d.failAt <= d.nImages }

Doc == inputFiles[idx]

\* path.basename(inputPath, '.docx') of the idx-th input
DocumentName(i) == <<"doc", i>>

InitPipe(m, files) ==
    /\ mode = m
    /\ inputFiles = files
    /\ extractImages \in BOOLEAN
    /\ pc = "idle"
    /\ idx = 0
    /\ handler = FALSE
    /\ imageCounter = 0
    /\ images = <<>>
    /\ calls = <<>>
    /\ srcs = <<>>
    /\ saved = 0
    /\ imageFiles = {}
    /\ outputFiles = {}
    /\ dirs = {}
    /\ stages = <<>>
    /\ converted = None
    /\ outcome = None
    /\ results = <<>>
    /\ summary = None
    /\ PpIdle
    /\ FmIdle
    /\ CliIdle

----------------------------------------------------------------------------
(* convertDocument (index.js) and convertDocxToMarkdown (converter.js),    *)
(* one action per statement that can be observed or can throw.             *)

Wrapped(message) == <<"Failed to convert document", message>>

\* bin/doc2md.js line 155: the CLI converts its one input file
StartSingle ==
    /\ mode = "single" /\ pc = "idle"
    /\ idx' = 1
    /\ pc' = "validate"
    /\ UNCHANGED <<cliVars, ppVars, fmVars, inVars, sinkVars, diskVars,
                   saved, stages, converted, outcome, results, summary>>

\* convertMultipleDocuments lines 236-243: results = [], first iteration
StartBatch ==
    /\ mode = "batch" /\ pc = "idle"
    /\ results' = <<>>
    /\ IF Len(inputFiles) = 0
       THEN pc' = "summarize" /\ idx' = idx
       ELSE pc' = "validate" /\ idx' = 1
    /\ UNCHANGED <<cliVars, ppVars, fmVars, inVars, sinkVars, diskVars,
                   saved, stages, converted, outcome, summary>>

\* a convertDocument without the validateInputFile call of line 192
ValidateInputSkipped ==
    /\ pc = "validate"
    /\ stages' = <<>>
    /\ converted' = None
    /\ outcome' = None
    /\ pc' = "mkdir"
    /\ UNCHANGED <<cliVars, ppVars, fmVars, inVars, sinkVars, diskVars, idx, saved,
                   results, summary>>

\* convertDocument line 192, validateInputFile
ValidateInput ==
    /\ pc = "validate"
    /\ stages' = <<>>
    /\ converted' = None
    /\ CASE Doc.kind = "missing" ->
              pc' = "thrown" /\ outcome' = Threw(<<"File not found">>)
         [] Doc.kind = "wrongext" ->
              pc' = "thrown" /\ outcome' = Threw(<<"Invalid file type">>)
         [] Doc.kind = "unreadable" ->
              pc' = "thrown" /\ outcome' = Threw(<<"File is not readable">>)
         [] OTHER ->
              pc' = "mkdir" /\ outcome' = None
    /\ UNCHANGED <<cliVars, ppVars, fmVars, inVars, sinkVars, diskVars, idx, saved,
                   results, summary>>

\* convertDocxToMarkdown lines 135-139
MakeDirs ==
    /\ pc = "mkdir"
    /\ dirs' = dirs \cup {"outputDir"} \cup (IF extractImages THEN {"images"} ELSE {})
    /\ pc' = "read"
    /\ UNCHANGED <<cliVars, ppVars, fmVars, inVars, sinkVars, imageFiles, outputFiles,
                   docVars, results, summary>>

\* an image handler whose counter and list are module-level: created once
\* and shared by all conversions
ReadAndPrepareShared ==
    /\ pc = "read"
    /\ handler' = extractImages
    /\ imageCounter' = IF imageCounter = 0 THEN 1 ELSE imageCounter
    /\ images' = images
    /\ calls' = <<>>
    /\ srcs' = <<>>
    /\ saved' = 0
    /\ pc' = "mammoth"
    /\ UNCHANGED <<cliVars, ppVars, fmVars, inVars, diskVars, idx, stages, converted,
                   outcome, results, summary>>

\* lines 142-148: read the file, createImageHandler (or null)
ReadAndPrepare ==
    /\ pc = "read"
    /\ handler' = extractImages
    /\ imageCounter' = 1
    /\ images' = <<>>
    /\ calls' = <<>>
    /\ srcs' = <<>>
    /\ saved' = 0
    /\ pc' = "mammoth"
    /\ UNCHANGED <<cliVars, ppVars, fmVars, inVars, diskVars, idx, stages, converted,
                   outcome, results, summary>>

\* createImageHandler().handler, lines 62-77, called by mammoth for the
\* next image of the document
HandlerCall ==
    /\ pc = "mammoth" /\ handler
    /\ Len(calls) < Doc.nImages
    /\ \E contentType \in Doc.types :
         LET record == ImageRecord(DocumentName(idx), imageCounter, contentType)
             pushed == Append(images, record)
         IN  /\ images' = pushed
             /\ imageCounter' = NextCounter(imageCounter)
             /\ srcs' = Append(srcs, pushed[Len(pushed)].placeholder)
             /\ calls' = Append(calls, contentType)
    /\ UNCHANGED <<cliVars, ppVars, fmVars, inVars, pc, handler, diskVars, docVars,
                   results, summary>>

MammothDone == ~handler \/ Len(calls) = Doc.nImages

\* mammoth.convertToHtml returns, line 165
MammothReturns ==
    /\ pc = "mammoth" /\ MammothDone
    /\ Doc.kind = "ok"
    /\ stages' = Append(stages, "structure")
    /\ pc' = "preprocess"
    /\ UNCHANGED <<cliVars, ppVars, fmVars, inVars, sinkVars, diskVars, idx, saved,
                   converted, outcome, results, summary>>

\* mammoth.convertToHtml throws; caught and wrapped at lines 200-202
MammothThrows ==
    /\ pc = "mammoth" /\ MammothDone
    /\ Doc.kind = "corrupt"
    /\ outcome' = Threw(Wrapped("corrupt document"))
    /\ pc' = "thrown"
    /\ UNCHANGED <<cliVars, ppVars, fmVars, inVars, sinkVars, diskVars, idx, saved,
                   stages, converted, results, summary>>

\* line 171
PreprocessStage ==
    /\ pc = "preprocess"
    /\ stages' = Append(stages, "preprocess")
    /\ pc' = "turndown"
    /\ UNCHANGED <<cliVars, ppVars, fmVars, inVars, sinkVars, diskVars, idx, saved,
                   converted, outcome, results, summary>>

\* lines 174-175
TurndownStage ==
    /\ pc = "turndown"
    /\ stages' = Append(stages, "flatten")
    /\ pc' = "postprocess"
    /\ UNCHANGED <<cliVars, ppVars, fmVars, inVars, sinkVars, diskVars, idx, saved,
                   converted, outcome, results, summary>>

\* a convertDocxToMarkdown that writes the markdown file itself, before
\* the images are saved
PostprocessStageWritesOutput ==
    /\ pc = "postprocess"
    /\ stages' = Append(stages, "postprocess")
    /\ outputFiles' = outputFiles \cup {idx}
    /\ pc' = "save"
    /\ UNCHANGED <<cliVars, ppVars, fmVars, inVars, sinkVars, imageFiles, dirs, idx,
                   saved, converted, outcome, results, summary>>

\* line 178
PostprocessStage ==
    /\ pc = "postprocess"
    /\ stages' = Append(stages, "postprocess")
    /\ pc' = "save"
    /\ UNCHANGED <<cliVars, ppVars, fmVars, inVars, sinkVars, diskVars, idx, saved,
                   converted, outcome, results, summary>>

\* the save loop of lines 181-188 has images left to write
SaveLeft == handler /\ saved < Len(images)

\* lines 183-186: fs.writeFile of the next image succeeds
SaveImage ==
    /\ pc = "save" /\ SaveLeft
    /\ Doc.failAt # saved + 1
    /\ imageFiles' = imageFiles \cup {images[saved + 1].path}
    /\ saved' = saved + 1
    /\ stages' = Append(stages, "image")
    /\ UNCHANGED <<cliVars, ppVars, fmVars, inVars, pc, sinkVars, outputFiles, dirs, idx,
                   converted, outcome, results, summary>>

\* lines 183-186: fs.writeFile of the next image throws; the catch of
\* lines 200-202 rethrows
SaveImageFails ==
    /\ pc = "save" /\ SaveLeft
    /\ Doc.failAt = saved + 1
    /\ outcome' = Threw(Wrapped("image write failed"))
    /\ pc' = "thrown"
    /\ UNCHANGED <<cliVars, ppVars, fmVars, inVars, sinkVars, diskVars, idx, saved,
                   stages, converted, results, summary>>

\* lines 190-198: convertDocxToMarkdown returns
ReturnConverted ==
    /\ pc = "save" /\ ~SaveLeft
    /\ converted' = [ images |-> IF handler THEN images ELSE <<>>,
                      warnings |-> Doc.messages ]
    /\ pc' = "frontmatter"
    /\ UNCHANGED <<cliVars, ppVars, fmVars, inVars, sinkVars, diskVars, idx, saved,
                   stages, outcome, results, summary>>

\* convertDocument lines 205-214: title and frontmatter
ComposeStage ==
    /\ pc = "frontmatter"
    /\ stages' = Append(stages, "frontmatter")
    /\ pc' = "write"
    /\ UNCHANGED <<cliVars, ppVars, fmVars, inVars, sinkVars, diskVars, idx, saved,
                   converted, outcome, results, summary>>

\* lines 217-220: the markdown file is written
WriteOutput ==
    /\ pc = "write"
    /\ outputFiles' = outputFiles \cup {idx}
    /\ stages' = Append(stages, "output")
    /\ pc' = "return"
    /\ UNCHANGED <<cliVars, ppVars, fmVars, inVars, sinkVars, imageFiles, dirs, idx, saved,
                   converted, outcome, results, summary>>

\* lines 222-229
ReturnSuccess ==
    /\ pc = "return"
    /\ outcome' = [ t |-> "result",
                    r |-> [ success |-> TRUE,
                            inputFile |-> idx,
                            outputFile |-> idx,
                            imagesExtracted |-> Len(converted.images),
                            warnings |-> converted.warnings ] ]
    /\ pc' = "returned"
    /\ UNCHANGED <<cliVars, ppVars, fmVars, inVars, sinkVars, diskVars, idx, saved,
                   stages, converted, results, summary>>

----------------------------------------------------------------------------
(* convertMultipleDocuments (index.js lines 235-275)                       *)

\* the for loop goes on to the next input, or ends; the result of the
\* convertDocument call that ended is gone, and nothing touches the image
\* handler it created
Advance ==
    /\ IF idx < Len(inputFiles)
       THEN idx' = idx + 1 /\ pc' = "validate"
       ELSE idx' = idx /\ pc' = "summarize"
    /\ UNCHANGED sinkVars
    /\ saved' = 0
    /\ converted' = None
    /\ outcome' = None

\* line 246: results.push(result)
RecordSuccess ==
    /\ mode = "batch" /\ pc = "returned"
    /\ results' = Append(results, outcome.r)
    /\ Advance
    /\ UNCHANGED <<cliVars, ppVars, fmVars, inVars, diskVars, stages, summary>>

\* a loop without the try/catch of lines 244-261: the first failure ends it
RecordFailureAborts ==
    /\ mode = "batch" /\ pc = "thrown"
    /\ results' = Append(results,
                         [success |-> FALSE, inputFile |-> idx, error |-> outcome.e])
    /\ idx' = idx /\ pc' = "summarize"
    /\ UNCHANGED sinkVars
    /\ saved' = 0
    /\ converted' = None
    /\ outcome' = None
    /\ UNCHANGED <<cliVars, ppVars, fmVars, inVars, diskVars, stages, summary>>

\* lines 251-256: the catch records the failure
RecordFailure ==
    /\ mode = "batch" /\ pc = "thrown"
    /\ results' = Append(results,
                         [success |-> FALSE, inputFile |-> idx, error |-> outcome.e])
    /\ Advance
    /\ UNCHANGED <<cliVars, ppVars, fmVars, inVars, diskVars, stages, summary>>

\* lines 265-274
Summarize ==
    /\ pc = "summarize"
    /\ summary' = createConversionSummary(results)
    /\ pc' = "done"
    /\ UNCHANGED <<cliVars, ppVars, fmVars, inVars, sinkVars, diskVars, docVars, results>>

DocumentSteps ==
    \/ ValidateInput \/ MakeDirs \/ ReadAndPrepare \/ HandlerCall
    \/ MammothReturns \/ MammothThrows
    \/ PreprocessStage \/ TurndownStage \/ PostprocessStage
    \/ SaveImage \/ SaveImageFails \/ ReturnConverted
    \/ ComposeStage \/ WriteOutput \/ ReturnSuccess

----------------------------------------------------------------------------
(* Specification Spec: the CLI converts one document (convertDocument),    *)
(* whose images can have every content type.                               *)

Init ==
    \E d \in Documents(ContentTypes, {<<>>, <<"unrecognised style">>}) :
        InitPipe("single", <<d>>)

Next == StartSingle \/ DocumentSteps

Spec == Init /\ [][Next]_vars

(* Specification SpecBatch: convertMultipleDocuments on up to MaxFiles     *)
(* documents with PNG images.                                              *)

BatchInputs ==
    UNION {[1..k -> Documents({<<"image", "png">>}, {<<>>})] : k \in 0..MaxFiles}

InitBatch == \E files \in BatchInputs : InitPipe("batch", files)

NextBatch == StartBatch \/ DocumentSteps \/ RecordSuccess \/ RecordFailure \/ Summarize

SpecBatch == InitBatch /\ [][NextBatch]_vars

(* Specification SpecSummary: createConversionSummary on every list of at  *)
(* most MaxResults per-document results.                                   *)

MaxResults == 6

ResultEntries(i) ==
    { [success |-> TRUE, inputFile |-> i, outputFile |-> i, imagesExtracted |-> 0,
       warnings |-> <<>>],
      [success |-> FALSE, inputFile |-> i, error |-> <<"File not found">>] }

ResultLists ==
    UNION { {rs \in [1..k -> ResultEntries(1)] : TRUE} : k \in 0..MaxResults }

InitSummary ==
    /\ mode = "batch"
    /\ inputFiles = <<>>
    /\ extractImages = FALSE
    /\ pc = "summarize"
    /\ idx = 0
    /\ handler = FALSE
    /\ imageCounter = 0
    /\ images = <<>>
    /\ calls = <<>>
    /\ srcs = <<>>
    /\ saved = 0
    /\ imageFiles = {}
    /\ outputFiles = {}
    /\ dirs = {}
    /\ stages = <<>>
    /\ converted = None
    /\ outcome = None
    /\ results \in ResultLists
    /\ summary = None
    /\ PpIdle
    /\ FmIdle
    /\ CliIdle

NextSummary == Summarize

SpecSummary == InitSummary /\ [][NextSummary]_vars

----------------------------------------------------------------------------
(* Claims about the pipeline.                                              *)

\* C1: when the image callback has been invoked N times in a conversion,
\* exactly N records are collected; the k-th call got ordinal k, the name
\* <documentName>-image-<k>.<ext of that call>, and returned the placeholder
\* ![Image k](./images/<name>) for the name stored in its record.
C1_ImageOrdinals ==
    handler =>
        /\ Len(images) = Len(calls)
        /\ Len(srcs) = Len(calls)
        /\ imageCounter = Len(calls) + 1
        /\ \A k \in 1..Len(calls) :
               /\ images[k].name
                      = ImageName(DocumentName(idx), k, Extension(calls[k]))
               /\ srcs[k] = Placeholder(k, images[k].name)
               /\ images[k].placeholder = srcs[k]
        /\ pc = "returned" => outcome.r.imagesExtracted = Len(calls)

\* a conversion that captured two images of different content types and
\* returned
C1_TwoImagesCaptured ==
    /\ pc = "returned" /\ handler
    /\ Len(images) = 2
    /\ Extension(calls[1]) # Extension(calls[2])

\* the writing of one captured image fails during this conversion
ImageWriteFails ==
    /\ idx >= 1 /\ handler
    /\ Doc.kind = "ok"
    /\ Doc.failAt >= 1

\* C2: when the write of one captured image fails, the conversion does not
\* fail: the failure is a warning of the result, the writes of all the
\* other images are attempted, and the markdown is returned.
C2_ImageWriteFailureIsWarning ==
    ImageWriteFails =>
        /\ pc # "thrown"
        /\ pc = "returned" =>
               /\ saved = Len(images)
               /\ outcome.r.success
               /\ \E i \in 1..Len(outcome.r.warnings) :
                      outcome.r.warnings[i] = "image write failed"

\* what convertDocument does with a document on its own
Succeeds(d) == d.kind = "ok" /\ (extractImages => d.failAt = 0)

ErrorOf(d) ==
    CASE d.kind = "missing" -> <<"File not found">>
      [] d.kind = "wrongext" -> <<"Invalid file type">>
      [] d.kind = "unreadable" -> <<"File is not readable">>
      [] d.kind = "corrupt" -> Wrapped("corrupt document")
      [] OTHER -> Wrapped("image write failed")

\* C3: convertMultipleDocuments completes with one entry per input, in
\* input order; a document whose conversion throws gets {success: false,
\* inputFile, error}, and every document's entry is the outcome that
\* document has on its own, whatever happened to the documents before it.
C3_BatchIsolation ==
    /\ Len(results) <= Len(inputFiles)
    /\ \A i \in 1..Len(results) :
           /\ results[i].inputFile = i
           /\ results[i].success = Succeeds(inputFiles[i])
           /\ results[i].success =>
                  results[i].imagesExtracted
                      = (IF extractImages THEN inputFiles[i].nImages ELSE 0)
           /\ ~results[i].success =>
                  results[i] = [success |-> FALSE, inputFile |-> i,
                                error |-> ErrorOf(inputFiles[i])]
    /\ pc \in {"summarize", "done"} => Len(results) = Len(inputFiles)
    /\ pc \notin {"idle", "summarize", "done"} => Len(results) = idx - 1
    /\ pc # "done" => ENABLED NextBatch

\* a batch of two whose first document failed and whose second succeeded
C3_FailureThenSuccess ==
    /\ pc = "done"
    /\ Len(inputFiles) = 2
    /\ ~results[1].success
    /\ results[2].success

\* C4: total = number of results, successful = number with success true,
\* failed = total - successful, successRate = 100 * successful / total as
\* a decimal string with exactly one decimal place, for every list of
\* results, the empty list included.
C4_SummaryOneDecimal ==
    pc = "done" =>
        /\ summary.total = Len(results)
        /\ summary.successful = CountSuccess(results)
        /\ summary.failed = summary.total - summary.successful
        /\ summary.successRate.t = "decimal"
        /\ summary.total > 0 =>
               LET tenths == 10 * summary.successRate.units + summary.successRate.tenth
                   diff == tenths * summary.total - 1000 * summary.successful
               IN  /\ summary.successRate.tenth \in 0..9
                   /\ 2 * diff <= summary.total
                   /\ -2 * diff <= summary.total

----------------------------------------------------------------------------
(* Claims about postprocessMarkdown.                                       *)

\* C5: postprocessMarkdown is idempotent: a second pass changes nothing.
C5_PostprocessIdempotent == ppc = "twice" => out2 = out1

(* Specification SpecHeading: postprocessMarkdown on texts made of a line  *)
(* of content, a heading line and a line of content, with any number of    *)
(* newlines up to MaxGap + 1 (MaxGap blank lines) on each side of the      *)
(* heading.                                                                *)

MaxGap == 5

Repeat(c, n) == [i \in 1..n |-> c]

HeadingTexts == {<<"a">>, <<"a", " ", "H">>}
ContentLines == {<<"a">>, <<"a", "2">>}

\* before, k newlines, a heading of level h, j newlines, after
HeadingDocument(before, k, h, title, j, after) ==
    before \o Repeat(NL, k) \o Repeat("#", h) \o <<" ">> \o title
        \o Repeat(NL, j) \o after

InitHeading ==
    /\ \E before \in ContentLines, after \in ContentLines, title \in HeadingTexts,
          k \in 1..(MaxGap + 1), j \in 1..(MaxGap + 1), h \in 1..MaxHeadingLevel :
         text = HeadingDocument(before, k, h, title, j, after)
    /\ html = <<>>
    /\ out1 = <<>>
    /\ out2 = <<>>
    /\ ppc = "in"
    /\ FmIdle
    /\ PipeIdle
    /\ CliIdle

SpecHeading == InitHeading /\ [][NextPost]_vars

\* C6: a heading line with non-blank content before and after it, separated
\* from it by any number of blank lines, comes out with exactly one blank
\* line before it and exactly one after it.
C6_OneBlankLineAroundHeading ==
    ppc = "once" =>
        \A before \in ContentLines, after \in ContentLines, title \in HeadingTexts,
           k \in 1..(MaxGap + 1), j \in 1..(MaxGap + 1), h \in 1..MaxHeadingLevel :
            text = HeadingDocument(before, k, h, title, j, after)
                => out1 = HeadingDocument(before, 2, h, title, 2, after)

----------------------------------------------------------------------------
(* Claims about convertDocument as a whole.                                *)

\* the input path of this conversion is missing, does not end in .docx or
\* is not readable
InvalidInput ==
    /\ idx >= 1
    /\ Doc.kind \in {"missing", "wrongext", "unreadable"}

\* C11: when the input path is missing, does not end in .docx or is not
\* readable, convertDocument throws the descriptive error of
\* validateInputFile before any stage runs: no directory is created, the
\* document is not read or converted, and no file is written.
C11_ValidationFailsFirst ==
    InvalidInput =>
        /\ pc \in {"validate", "thrown"}
        /\ pc = "thrown" => outcome = Threw(ErrorOf(Doc))
        /\ dirs = {}
        /\ imageFiles = {}
        /\ outputFiles = {}
        /\ stages = <<>>
        /\ ~handler
        /\ calls = <<>>
        /\ converted = None

\* convertDocument threw on an input that is not readable
C11_UnreadableRejected ==
    /\ InvalidInput
    /\ Doc.kind = "unreadable"
    /\ pc = "thrown"

\* the place of a logged stage in the order the pipeline is described to
\* have: structural conversion, preprocess, flattening, postprocess, title
\* and frontmatter with the final assembly, persistence of the images
StageRank(stage) ==
    CASE stage = "structure" -> 1
      [] stage = "preprocess" -> 2
      [] stage = "flatten" -> 3
      [] stage = "postprocess" -> 4
      [] stage = "frontmatter" -> 5
      [] stage = "image" -> 6
      [] OTHER -> 7

IsOrderedStage(stage) == StageRank(stage) <= 6

\* C12: in a single-document conversion the stages happen in the order
\* structural conversion, preprocess, flattening, postprocess, title and
\* frontmatter with the final assembly, persistence of the captured images,
\* return; no image is written before the frontmatter has been composed,
\* and a conversion that returns has run every stage once and written
\* every captured image.
C12_StagesInOrder ==
    LET log == SelectSeq(stages, IsOrderedStage)
    IN  /\ \A i \in 1..Len(log) : \A j \in 1..Len(log) :
               i < j => StageRank(log[i]) <= StageRank(log[j])
        /\ \A i \in 1..Len(stages) :
               stages[i] = "image" =>
                   \E j \in 1..(i - 1) : stages[j] = "frontmatter"
        /\ pc = "returned" =>
               /\ \A r \in 1..5 :
                      Cardinality({i \in 1..Len(log) : StageRank(log[i]) = r}) = 1
               /\ Cardinality({i \in 1..Len(log) : log[i] = "image"})
                      = Len(converted.images)

----------------------------------------------------------------------------
(* config.js: mergeOptions; bin/doc2md.js: the convert action.  The        *)
(* options commander parsed hold a key only for an option that was given   *)
(* (and images, which is true unless --no-images was given).               *)

\* options.frontmatter || {}
FrontmatterOf(options) == Or(Get(options, "frontmatter"), Obj(<<>>)).o

\* config.js lines 57-67
mergeOptions(configOptions, cliOpts) ==
    Set(Spread(Spread(<<>>, configOptions), cliOpts), "frontmatter",
        Obj(Spread(Spread(<<>>, FrontmatterOf(configOptions)),
                   FrontmatterOf(cliOpts))))

\* s.split(',')
RECURSIVE SplitComma(_)
SplitComma(s) ==
    IF \A i \in 1..Len(s) : s[i] # ","
    THEN <<s>>
    ELSE LET comma == CHOOSE i \in 1..Len(s) :
                          s[i] = "," /\ \A j \in 1..(i - 1) : s[j] # ","
         IN  <<Slice(s, 1, comma - 1)>> \o SplitComma(Slice(s, comma + 1, Len(s)))

\* options.objectives.split(',').map(o => o.trim())
SplitAndTrim(s) ==
    LET pieces == SplitComma(s)
    IN  List([i \in 1..Len(pieces) |-> Str(Trim(pieces[i]))])

\* config.frontmatter?.objectives
ConfigObjectives(cfg) ==
    LET frontmatter == Get(cfg, "frontmatter")
    IN  IF frontmatter \in {Undefined, Null}
        THEN Undefined
        ELSE Get(frontmatter.o, "objectives")

\* bin/doc2md.js lines 124-130: let objectives
ParseObjectives(options, cfg) ==
    IF Truthy(Get(options, "objectives"))
    THEN SplitAndTrim(Get(options, "objectives").s)
    ELSE IF Truthy(ConfigObjectives(cfg))
         THEN ConfigObjectives(cfg)
         ELSE List(<<>>)

\* lines 133-143: the second argument of mergeOptions
ConvertOptions(options, cfg) ==
    LET objectives == ParseObjectives(options, cfg)
    IN  << <<"outputDir", Get(options, "output")>>,
           <<"extractImages", Bool(Get(options, "images") # Bool(FALSE))>>,
           <<"verbose", Or(Get(options, "verbose"), Bool(FALSE))>>,
           <<"frontmatter",
             Obj(<< <<"title", Get(options, "title")>>,
                    <<"section", Get(options, "section")>>,
                    <<"chapter", Get(options, "chapter")>>,
                    <<"objectives",
                      IF Len(objectives.l) > 0 THEN objectives ELSE Undefined>> >>)>> >>

\* lines 107-143: the config is loaded, the objectives parsed and the
\* options merged; convertDocument destructures extractImages = true
MergeStep ==
    /\ pc = "cli"
    /\ mergedOptions' = mergeOptions(config, ConvertOptions(cliOptions, config))
    /\ extractImages' = Default(Get(mergedOptions', "extractImages"), Bool(TRUE)).b
    /\ pc' = "find"
    /\ UNCHANGED <<ppVars, fmVars, mode, inputFiles, sinkVars, diskVars, docVars,
                   results, summary, input, config, cliOptions, exitStatus, tally>>

(* Specification SpecMerge: the option handling of the convert action on   *)
(* every config file and command line below.                               *)

Configs ==
    { Given(<<<<"outputDir", d>>, <<"frontmatter", f>>>>) :
        d \in {Absent, Str(<<"o", "u", "t">>)},
        f \in {Absent} \cup
              { Obj(Given(<<<<"title", t>>, <<"section", s>>, <<"chapter", c>>,
                            <<"objectives", o>>>>)) :
                  t \in {Absent, Str(<<"a">>)},
                  s \in {Absent, Str(<<"1">>)},
                  c \in {Absent, Num(1)},
                  o \in {Absent, List(<<>>), List(<<Str(<<"o">>)>>)} } }

CommandLines ==
    { Given(<<<<"output", d>>, <<"title", t>>, <<"section", s>>, <<"chapter", c>>,
              <<"objectives", o>>, <<"images", i>>>>) :
        d \in {Absent, Str(<<"d">>)},
        t \in {Absent, Str(<<"H">>)},
        s \in {Absent, Str(<<"2">>)},
        c \in {Absent, Num(2)},
        o \in {Absent, Str(<<"p">>), Str(<<"p", ",", " ", "q">>)},
        i \in {Bool(TRUE), Bool(FALSE)} }

\* the convert action starts on the given files
InitCli(cfg, options, in, files) ==
    /\ input = in
    /\ config = cfg
    /\ cliOptions = options
    /\ mergedOptions = None
    /\ exitStatus = None
    /\ tally = None
    /\ mode = "off"
    /\ inputFiles = files
    /\ extractImages = TRUE
    /\ pc = "cli"
    /\ idx = 0
    /\ handler = FALSE
    /\ imageCounter = 0
    /\ images = <<>>
    /\ calls = <<>>
    /\ srcs = <<>>
    /\ saved = 0
    /\ imageFiles = {}
    /\ outputFiles = {}
    /\ dirs = {}
    /\ stages = <<>>
    /\ converted = None
    /\ outcome = None
    /\ results = <<>>
    /\ summary = None
    /\ PpIdle
    /\ FmIdle

InitMerge == \E cfg \in Configs, options \in CommandLines : InitCli(cfg, options, "directory", <<>>)

SpecMerge == InitMerge /\ [][MergeStep]_vars

\* the value given on the command line for a frontmatter key
CommandLineValue(k) ==
    IF k = "objectives"
    THEN SplitAndTrim(Get(cliOptions, k).s)
    ELSE Get(cliOptions, k)

\* C13: an option (outputDir, frontmatter.title, .section, .chapter,
\* .objectives) set in the config file and not given on the command line
\* is passed to the conversion with the config file's value; an option
\* given on the command line is passed with the command line's value.
C13_ConfigValuesAreDefaults ==
    mergedOptions # None =>
        /\ Has(config, "outputDir") /\ ~Has(cliOptions, "output") =>
               Get(mergedOptions, "outputDir") = Get(config, "outputDir")
        /\ Has(cliOptions, "output") =>
               Get(mergedOptions, "outputDir") = Get(cliOptions, "output")
        /\ \A k \in {"title", "section", "chapter", "objectives"} :
               /\ Has(FrontmatterOf(config), k) /\ ~Has(cliOptions, k) =>
                      Get(FrontmatterOf(mergedOptions), k)
                          = Get(FrontmatterOf(config), k)
               /\ Has(cliOptions, k) =>
                      Get(FrontmatterOf(mergedOptions), k) = CommandLineValue(k)

----------------------------------------------------------------------------
(* bin/doc2md.js: the rest of the convert action.  inputFiles is what the  *)
(* <input> argument names on disk: the one file, or the .docx files of the *)
(* directory.                                                              *)

\* lines 146-153: findDocxFiles (utils.js lines 56-70) throws on a path
\* that is no .docx file, which the catch of lines 201-207 turns into
\* exit status 1; no file found is exit status 1; one file without
\* --batch is a single conversion
FindFiles ==
    /\ pc = "find"
    /\ IF \/ input = "file" /\ inputFiles[1].kind \in {"missing", "wrongext"}
          \/ Len(inputFiles) = 0
       THEN /\ exitStatus' = Num(1)
            /\ pc' = "exited"
            /\ mode' = mode
       ELSE /\ exitStatus' = exitStatus
            /\ pc' = "idle"
            /\ mode' = IF Len(inputFiles) = 1 /\ ~Truthy(Get(cliOptions, "batch"))
                       THEN "single" ELSE "batch"
    /\ UNCHANGED <<ppVars, fmVars, inputFiles, extractImages, sinkVars, diskVars,
                   docVars, results, summary, input, config, cliOptions,
                   mergedOptions, tally>>

\* lines 155-172: convertDocument returned, the result is printed and the
\* process ends with status 0
SingleSucceeded ==
    /\ mode = "single" /\ pc = "returned"
    /\ exitStatus' = Num(0)
    /\ pc' = "exited"
    /\ UNCHANGED <<ppVars, fmVars, inVars, sinkVars, diskVars, docVars, results,
                   summary, input, config, cliOptions, mergedOptions, tally>>

\* lines 201-207: convertDocument threw, process.exit(1)
ActionCatch ==
    /\ mode = "single" /\ pc = "thrown"
    /\ exitStatus' = Num(1)
    /\ pc' = "exited"
    /\ UNCHANGED <<ppVars, fmVars, inVars, sinkVars, diskVars, docVars, results,
                   summary, input, config, cliOptions, mergedOptions, tally>>

\* lines 174-199: convertMultipleDocuments returned, the tally is printed
\* and the process ends with status 0
BatchPrinted ==
    /\ mode = "batch" /\ pc = "done"
    /\ tally' = summary
    /\ exitStatus' = Num(0)
    /\ pc' = "exited"
    /\ UNCHANGED <<ppVars, fmVars, inVars, sinkVars, diskVars, docVars, results,
                   summary, input, config, cliOptions, mergedOptions>>

(* Specification SpecCli: the convert action on one file or on a directory *)
(* of up to MaxFiles .docx files, with and without --batch and --no-images.*)

CliFlags ==
    { Given(<<<<"images", i>>, <<"batch", b>>>>) :
        i \in {Bool(TRUE), Bool(FALSE)}, b \in {Absent, Bool(TRUE)} }

\* the files a directory walk finds exist and end in .docx
FoundDocuments ==
    { d \in Documents({<<"image", "png">>}, {<<>>}) :
        d.kind \notin {"missing", "wrongext"} }

DirectoryInputs == UNION {[1..k -> FoundDocuments] : k \in 0..MaxFiles}

InitCliRun ==
    \E options \in CliFlags :
        \/ \E d \in Documents({<<"image", "png">>}, {<<>>}) :
               InitCli(<<>>, options, "file", <<d>>)
        \/ \E files \in DirectoryInputs :
               InitCli(<<>>, options, "directory", files)

NextCli ==
    \/ MergeStep \/ FindFiles
    \/ StartSingle \/ StartBatch \/ DocumentSteps
    \/ RecordSuccess \/ RecordFailure \/ Summarize
    \/ SingleSucceeded \/ ActionCatch \/ BatchPrinted

SpecCli == InitCliRun /\ [][NextCli]_vars

\* C14: a single-document invocation whose conversion fails exits with a
\* non-zero status; a batch invocation converts every document, prints
\* the tally and exits with a non-zero status if and only if at least one
\* document failed.
C14_ExitStatusReflectsFailure ==
    pc = "exited" =>
        /\ mode = "single" /\ outcome.t = "throw" => exitStatus # Num(0)
        /\ mode = "batch" =>
               /\ Len(results) = Len(inputFiles)
               /\ tally = summary
               /\ exitStatus # Num(0) <=> summary.failed > 0

----------------------------------------------------------------------------
(* Claims about the formula rules of postprocessMarkdown.                  *)

(* Specification SpecFormula: postprocessMarkdown on texts made of a plain *)
(* word, a formula-shaped token of up to MaxGroups further groups, and a   *)
(* plain word, separated by single spaces.                                 *)

MaxGroups == 2

Symbols == {<<"H">>, <<"H", "a">>}
DigitRuns == {<<"2">>, <<"2", "2">>}
PlainWords == {<<"a">>, <<"H", "a">>, <<"a", "H", "2">>}

\* sequences of n groups: capital, optional lowercase, optional digits
RECURSIVE GroupRuns(_)
GroupRuns(n) ==
    IF n = 0 THEN {<<>>}
    ELSE { g \o d \o rest :
             g \in Symbols, d \in DigitRuns \cup {<<>>}, rest \in GroupRuns(n - 1) }

\* capital, optional lowercase, digits, then 1..MaxGroups further groups
FormulaTokens ==
    { g \o d \o rest :
        g \in Symbols, d \in DigitRuns,
        rest \in UNION {GroupRuns(n) : n \in 1..MaxGroups} }

Sentence(before, token, after) == before \o <<" ">> \o token \o <<" ">> \o after

InitFormula ==
    /\ \E before \in PlainWords, after \in PlainWords, token \in FormulaTokens :
         text = Sentence(before, token, after)
    /\ html = <<>>
    /\ out1 = <<>>
    /\ out2 = <<>>
    /\ ppc = "in"
    /\ FmIdle
    /\ PipeIdle
    /\ CliIdle

SpecFormula == InitFormula /\ [][NextPost]_vars

\* C15: a formula-shaped token between plain words comes out of one pass
\* of postprocessMarkdown wrapped in exactly one pair of $, with the words
\* around it unchanged.
C15_FormulaTokenWrappedOnce ==
    ppc # "in" =>
        LET first == CHOOSE i \in 1..Len(text) :
                         text[i] = " " /\ \A j \in 1..(i - 1) : text[j] # " "
            last == CHOOSE i \in 1..Len(text) :
                        text[i] = " " /\ \A j \in (i + 1)..Len(text) : text[j] # " "
            before == Slice(text, 1, first - 1)
            token == Slice(text, first + 1, last - 1)
            after == Slice(text, last + 1, Len(text))
        IN  /\ before \in PlainWords
            /\ after \in PlainWords
            /\ token \in FormulaTokens
            /\ text = Sentence(before, token, after)
            /\ out1 = Sentence(before, <<"$">> \o token \o <<"$">>, after)

\* one pass has wrapped a token with a lowercase letter and two digits in
\* its first group
C15_LongTokenWrapped ==
    /\ ppc = "once"
    /\ \E before \in PlainWords, after \in PlainWords :
         text = Sentence(before, <<"H", "a", "2", "2", "H", "a", "2">>, after)
    /\ out1 # text

----------------------------------------------------------------------------
(* converter.js, configureTurndown: the subscript rule, and the flattening *)
(* of a run of inline nodes.  A node is a text node or a <sub> element;    *)
(* the text nodes here hold letters, digits and spaces, which turndown     *)
(* copies as they are.                                                     *)

TextNode(content) == [tag |-> "text", content |-> content]
SubNode(content) == [tag |-> "sub", content |-> content]

\* lines 37-42: replacement of the subscript rule
SubscriptReplacement(content) == <<"_">> \o content \o <<"_">>

\* turndownService.turndown on the nodes, line 175
RECURSIVE TurndownInline(_)
TurndownInline(nodes) ==
    IF nodes = <<>> THEN <<>>
    ELSE (IF Head(nodes).tag = "sub"
          THEN SubscriptReplacement(Head(nodes).content)
          ELSE Head(nodes).content) \o TurndownInline(Tail(nodes))

\* lines 174-175
Flatten ==
    /\ ppc = "html"
    /\ text' = TurndownInline(html)
    /\ ppc' = "in"
    /\ UNCHANGED <<html, out1, out2, fmVars, pipeVars, cliVars>>

(* Specification SpecSubscript: a formula written with a subscript         *)
(* element, alone or between words, is flattened and post-processed.       *)

LeadingWords == {<<>>, <<"a", " ">>, <<"H", "a", " ">>}
TrailingWords == {<<>>, <<" ", "a">>, <<" ", "H", "a">>}

\* before, element symbol, <sub>digits</sub>, further symbol, after
SubscriptFormula(before, symbol, digits, further, after) ==
    << TextNode(before \o symbol), SubNode(digits), TextNode(further \o after) >>

InitSubscript ==
    /\ \E before \in LeadingWords, after \in TrailingWords, symbol \in Symbols,
          digits \in DigitRuns, further \in Symbols :
         html = SubscriptFormula(before, symbol, digits, further, after)
    /\ text = <<>>
    /\ out1 = <<>>
    /\ out2 = <<>>
    /\ ppc = "html"
    /\ FmIdle
    /\ PipeIdle
    /\ CliIdle

NextSubscript == Flatten \/ Postprocess \/ PostprocessAgain

SpecSubscript == InitSubscript /\ [][NextSubscript]_vars

\* C16: a formula written as element symbol, subscripted digits, further
\* symbol comes out of the subscript rule followed by postprocessMarkdown
\* as $<symbol>_<digits><further>$: no underscore after the digits, and
\* the whole formula between $ delimiters.
C16_SubscriptFormulaIsInlineMath ==
    ppc \in {"once", "twice"} =>
        \A before \in LeadingWords, after \in TrailingWords, symbol \in Symbols,
           digits \in DigitRuns, further \in Symbols :
            html = SubscriptFormula(before, symbol, digits, further, after)
                => out1 = before \o <<"$">> \o symbol \o <<"_">> \o digits
                              \o further \o <<"$">> \o after

----------------------------------------------------------------------------
(* Claims about the scope of the image handler.                            *)

\* convertDocxToMarkdown has created the image handler of the current
\* document and has not thrown
HandlerInUse ==
    /\ handler
    /\ pc \in {"mammoth", "preprocess", "turndown", "postprocess", "save",
               "frontmatter", "write", "return", "returned"}

\* C17: in every sequence of conversions the image handler of a document
\* starts with ordinal 1 and an empty list: while a document is converted
\* the list holds exactly the records of the handler calls made for that
\* document, numbered from 1, and the image list returned for a document
\* holds the records of that document only.
C17_ImageStatePerConversion ==
    /\ HandlerInUse =>
           /\ imageCounter = Len(calls) + 1
           /\ Len(images) = Len(calls)
           /\ \A k \in 1..Len(images) :
                  /\ images[k].buffer = <<DocumentName(idx), k>>
                  /\ images[k].name.doc = DocumentName(idx)
                  /\ images[k].name.n = k
    /\ converted # None =>
           /\ Len(converted.images) = (IF extractImages THEN Doc.nImages ELSE 0)
           /\ \A k \in 1..Len(converted.images) :
                  converted.images[k].buffer = <<DocumentName(idx), k>>

\* the second document of a batch returned its two images after the first
\* document had returned images of its own
C17_SecondDocumentReturnedImages ==
    /\ mode = "batch"
    /\ idx = 2
    /\ pc = "returned"
    /\ Len(converted.images) = 2
    /\ results[1].success
    /\ results[1].imagesExtracted >= 1

----------------------------------------------------------------------------
(* Claims about the output file.                                           *)

\* C18: when convertDocument fails for a document before its final write
\* (input validation, reading or structural conversion, image
\* persistence), the markdown output file of that document is not written;
\* the output file is written only on the path that returns success: true.
C18_NoOutputOnFailure ==
    /\ pc = "thrown" => idx \notin outputFiles
    /\ pc = "returned" => idx \in outputFiles /\ outcome.r.success
    /\ \A i \in outputFiles : i <= idx /\ Succeeds(inputFiles[i])
    /\ \A i \in 1..Len(results) : results[i].success <=> i \in outputFiles

\* the second document of a batch failed at the write of its second
\* image, after the first document's output had been written
C18_ImageFailureLeftNoOutput ==
    /\ mode = "batch"
    /\ idx = 2
    /\ pc = "thrown"
    /\ handler
    /\ Doc.failAt = 2
    /\ saved = 1
    /\ outputFiles = {1}

====
